---- MODULE Spec2Model ----
(***************************************************************************)
(* MentalEngine: the input router (WindowManager::__setup_input_callbacks), *)
(* the orbit camera (Camera) and the drawing-tool state of the user        *)
(* interface (UserInterface), as one state machine.                        *)
(*                                                                         *)
(* Numbers.  Every C++ float is a fixed-point integer with three decimal   *)
(* digits: the float v is the integer v * SCALE (5.0f is 5000, 0.01f is    *)
(* 10).  Angles are therefore in milliradians.  Products and quotients are *)
(* rounded toward zero, as symmetric in sign as float arithmetic is.       *)
(*                                                                         *)
(* Construction.  Init is the state after WindowManager::WindowManager()   *)
(* succeeded: GLFW, GLEW and the ImGui back ends initialised, so the       *)
(* window, the renderer, its camera and the user interface all exist and   *)
(* the null checks of the callbacks (wm, pUI, pRenderer, GetCamera(),      *)
(* pWindow) pass.                                                          *)
(*                                                                         *)
(* Environment.  What a callback reads from the libraries is an input of   *)
(* the callback: the ImGuiIO flags (ImGui::GetIO()), the cursor position   *)
(* (glfwGetCursorPos) and the window size (glfwGetWindowSize).  ImGui      *)
(* recomputes its flags in every frame and the platform may resize the     *)
(* window between any two events, so each event may read any value.        *)
(***************************************************************************)
EXTENDS Integers, Sequences, FiniteSets, TLC

VARIABLES
    cam,          \* the Camera object owned by the Renderer
    ui,           \* the UserInterface fields the drawing tools use
    last,         \* the last platform input event: its arguments, what the callback
                  \* read from ImGui and GLFW, and the handlers it called
    press_at,     \* history: pixel and window size of the last press that began a drawing
    steps,        \* number of platform input events handled so far
    con,          \* the console: the stream buffers of std::cout and std::cerr, the
                  \* redirect buffers and console_output of the UserInterface, and
                  \* how far the life of the UserInterface object has come
    held,         \* history: the keys that are held down
    rnd           \* the Renderer: its viewport and shader fields, and the objects
                  \* of the GL context they name

vars == <<cam, ui, last, press_at, steps, con, held, rnd>>

-----------------------------------------------------------------------------
(* Fixed-point arithmetic standing for float arithmetic.                   *)

SCALE == 10 * 10 * 10

Abs(a) == IF a < 0 THEN -a ELSE a

Max(a, b) == IF a >= b THEN a ELSE b

Min(a, b) == IF a <= b THEN a ELSE b

\* a / b for b > 0, rounded toward zero
TDiv(a, b) == IF a >= 0 THEN a \div b ELSE -((-a) \div b)

\* float product of two fixed-point numbers
FMul(a, b) == TDiv(a * b, SCALE)

\* float quotient of two fixed-point numbers, b # 0
FDiv(a, b) == IF b > 0 THEN TDiv(a * SCALE, b) ELSE -TDiv(a * SCALE, -b)

RECURSIVE IsqrtIn(_, _, _)
IsqrtIn(n, lo, hi) ==
    IF lo >= hi THEN lo
    ELSE LET mid == (lo + hi + 1) \div 2
         IN  IF mid * mid <= n THEN IsqrtIn(n, mid, hi) ELSE IsqrtIn(n, lo, mid - 1)

\* floor of the square root of n >= 0
Isqrt(n) == IsqrtIn(n, 0, 46340)

\* std::sin for an argument in [-pi/2, pi/2] (Taylor polynomial, degree 7)
SinSeries(x) ==
    LET x2 == FMul(x, x)
        t3 == TDiv(FMul(x, x2), 6)
        t5 == TDiv(FMul(t3, x2), 20)
        t7 == TDiv(FMul(t5, x2), 42)
    IN  x - t3 + t5 - t7

\* std::cos for an argument in [-pi/2, pi/2] (Taylor polynomial, degree 8)
CosSeries(x) ==
    LET x2 == FMul(x, x)
        t2 == TDiv(x2, 2)
        t4 == TDiv(FMul(t2, x2), 12)
        t6 == TDiv(FMul(t4, x2), 30)
        t8 == TDiv(FMul(t6, x2), 56)
    IN  SCALE - t2 + t4 - t6 + t8

\* the angle a brought into (-pi, pi]
WrapAngle(a) ==
    LET twoPi == 6283
        pi    == 3142
        r     == a % twoPi
    IN  IF r > pi THEN r - twoPi ELSE r

Sin(a) ==
    LET pi     == 3142
        halfPi == 1571
        r      == WrapAngle(a)
    IN  IF r > halfPi THEN SinSeries(pi - r)
        ELSE IF r < -halfPi THEN SinSeries(-pi - r)
        ELSE SinSeries(r)

Cos(a) ==
    LET pi     == 3142
        halfPi == 1571
        r      == WrapAngle(a)
    IN  IF r > halfPi THEN -CosSeries(pi - r)
        ELSE IF r < -halfPi THEN -CosSeries(-pi - r)
        ELSE CosSeries(r)

\* the least angle of [lo, hi] whose sine reaches v, hi if none does
RECURSIVE AsinIn(_, _, _)
AsinIn(v, lo, hi) ==
    IF lo >= hi THEN hi
    ELSE LET mid == (lo + hi) \div 2
         IN  IF SinSeries(mid) >= v
             THEN AsinIn(v, lo, mid) ELSE AsinIn(v, mid + 1, hi)

\* std::asin for an argument in [-1, 1]: an angle in [-pi/2, pi/2], the
\* quarter turn itself for 1 and -1
Asin(v) ==
    LET halfPi == 1571
    IN  IF v >= SCALE THEN halfPi
        ELSE IF v <= -SCALE THEN -halfPi
        ELSE IF v >= 0 THEN AsinIn(v, 0, halfPi) ELSE -AsinIn(-v, 0, halfPi)

\* std::atan2 for the two horizontal components of a unit-length direction
\* or of the zero vector: an angle in [-pi, pi], 0 for (0, 0)
Atan2(z, x) ==
    LET pi == 3142
        r  == Isqrt(z * z + x * x)
        a  == IF r = 0 THEN 0 ELSE Asin(Min(SCALE, FDiv(Abs(z), r)))
        b  == IF x >= 0 THEN a ELSE pi - a
    IN  IF z >= 0 THEN b ELSE -b

\* Math::radians(89.0f)
Radians89 == FMul(89 * SCALE, 3142) \div 180

-----------------------------------------------------------------------------
(* Math::Vector2 and Math::Vector3 as tuples.                              *)

Vector2(x, y) == <<x, y>>

Vector3(x, y, z) == <<x, y, z>>

V3Add(a, b) == <<a[1] + b[1], a[2] + b[2], a[3] + b[3]>>

V3Sub(a, b) == <<a[1] - b[1], a[2] - b[2], a[3] - b[3]>>

V3Scale(a, s) == <<FMul(a[1], s), FMul(a[2], s), FMul(a[3], s)>>

V3Cross(a, b) ==
    << FMul(a[2], b[3]) - FMul(a[3], b[2]),
       FMul(a[3], b[1]) - FMul(a[1], b[3]),
       FMul(a[1], b[2]) - FMul(a[2], b[1]) >>

\* Vector3::length; long vectors are measured in coarser units so that the
\* sum of squares stays inside the machine integers of the checker
RECURSIVE V3Length(_)
V3Length(a) ==
    IF Max(Abs(a[1]), Max(Abs(a[2]), Abs(a[3]))) > 20000
    THEN 64 * V3Length(<<TDiv(a[1], 64), TDiv(a[2], 64), TDiv(a[3], 64)>>)
    ELSE Isqrt(a[1] * a[1] + a[2] * a[2] + a[3] * a[3])

\* Vector3::normalized: the zero vector for a zero length
V3Normalized(a) ==
    LET len == V3Length(a)
    IN  IF len = 0 THEN <<0, 0, 0>>
        ELSE <<FDiv(a[1], len), FDiv(a[2], len), FDiv(a[3], len)>>

-----------------------------------------------------------------------------
(* Camera (Camera.h, Camera.cpp).  A camera is a record of its fields; each *)
(* method is an operator from the camera before the call to the camera     *)
(* after it.  The fields the class never assigns after construction are    *)
(* definitions.                                                            *)

min_orbit_distance == 100

max_orbit_distance == 1000000

zoom_speed == 100

pan_speed == Vector3(SCALE, SCALE, SCALE)

\* Camera::__update_orbit_position
UpdateOrbitPosition(c) ==
    LET cos_y == Cos(c.orbit_angle_y)
    IN  [c EXCEPT !.position =
            << c.target[1] + FMul(FMul(c.orbit_distance, cos_y), Cos(c.orbit_angle_x)),
               c.target[2] + FMul(c.orbit_distance, Sin(c.orbit_angle_y)),
               c.target[3] + FMul(FMul(c.orbit_distance, cos_y), Sin(c.orbit_angle_x)) >>]

\* Camera::__constrain_orbit_angles
ConstrainOrbitAngles(c) ==
    [c EXCEPT !.orbit_angle_y = Max(-Radians89, Min(Radians89, c.orbit_angle_y))]

\* Camera::__update_aspect_ratio, width and height being ints
UpdateAspectRatio(c, width, height) ==
    IF height > 0
    THEN [c EXCEPT !.aspect_ratio = FDiv(width * SCALE, height * SCALE)]
    ELSE c

\* Camera::Camera
CameraNew ==
    UpdateOrbitPosition(
        [ position       |-> Vector3(0, 0, 5 * SCALE),
          target         |-> Vector3(0, 0, 0),
          up             |-> Vector3(0, SCALE, 0),
          projection     |-> "Perspective",
          fov            |-> 45 * SCALE,
          aspect_ratio   |-> FDiv(16 * SCALE, 9 * SCALE),
          near_plane     |-> 100,
          far_plane      |-> 1000 * SCALE,
          ortho_size     |-> 10 * SCALE,
          is_rotating    |-> FALSE,
          is_panning     |-> FALSE,
          is_zooming     |-> FALSE,
          is_ctrl_pressed |-> FALSE,
          last_mouse_pos |-> Vector2(0, 0),
          mouse_delta    |-> Vector2(0, 0),
          orbit_distance |-> 5 * SCALE,
          orbit_angle_x  |-> 0,
          orbit_angle_y  |-> 0,
          zoom_factor    |-> SCALE ])

SetProjection(c, proj) == [c EXCEPT !.projection = proj]

SetFieldOfView(c, fov_degrees) == [c EXCEPT !.fov = fov_degrees]

SetOrthographicSize(c, size) == [c EXCEPT !.ortho_size = size]

SetClippingPlanes(c, near, far) == [c EXCEPT !.near_plane = near, !.far_plane = far]

\* A SetPosition that stores the position and leaves the orbit as it was
SetPositionKeepsOrbit(c, pos) == [c EXCEPT !.position = pos]

\* Camera::SetPosition
SetPosition(c, pos) ==
    LET offset    == V3Sub(pos, c.target)
        direction == V3Normalized(offset)
    IN  [c EXCEPT !.position       = pos,
                  !.orbit_distance = V3Length(offset),
                  !.orbit_angle_y  = Asin(direction[2]),
                  !.orbit_angle_x  = Atan2(direction[3], direction[1])]

SetTarget(c, new_target) == UpdateOrbitPosition([c EXCEPT !.target = new_target])

SetOrbitDistance(c, distance) ==
    UpdateOrbitPosition(
        [c EXCEPT !.orbit_distance =
            Max(min_orbit_distance, Min(max_orbit_distance, distance))])

SetOrbitAngles(c, angle_x, angle_y) ==
    UpdateOrbitPosition(ConstrainOrbitAngles(
        [c EXCEPT !.orbit_angle_x = angle_x, !.orbit_angle_y = angle_y]))

\* Camera::Orbit: the angles move by delta * 0.01f
Orbit(c, delta_x, delta_y) ==
    UpdateOrbitPosition(ConstrainOrbitAngles(
        [c EXCEPT !.orbit_angle_x = @ + FMul(delta_x, 10),
                  !.orbit_angle_y = @ + FMul(delta_y, 10)]))

GetForward(c) == V3Normalized(V3Sub(c.target, c.position))

GetRight(c) == V3Normalized(V3Cross(GetForward(c), c.up))

GetUp(c) == c.up

\* Camera::Pan
Pan(c, delta_x, delta_y) ==
    LET right == GetRight(c)
        up    == GetUp(c)
        pan_delta ==
            V3Scale(V3Scale(V3Add(V3Scale(right, delta_x), V3Scale(up, delta_y)),
                            pan_speed[1]), 10)
    IN  [c EXCEPT !.position = V3Add(c.position, pan_delta),
                  !.target   = V3Add(c.target, pan_delta)]

\* Camera::MoveAlongAxes
MoveAlongAxes(c, delta_x, delta_y) ==
    LET right   == GetRight(c)
        up      == GetUp(c)
        forward == GetForward(c)
        move_delta ==
            V3Scale(V3Scale(V3Add(V3Scale(right, delta_x), V3Scale(up, delta_y)),
                            pan_speed[1]), 10)
        forward_delta == V3Scale(V3Scale(V3Scale(forward, delta_y), pan_speed[3]), 5)
    IN  [c EXCEPT !.position = V3Add(V3Add(c.position, move_delta), forward_delta),
                  !.target   = V3Add(V3Add(c.target, move_delta), forward_delta)]

\* Camera::Zoom
Zoom(c, delta) ==
    IF c.projection = "Perspective"
    THEN UpdateOrbitPosition(
            [c EXCEPT !.orbit_distance =
                Max(min_orbit_distance,
                    Min(max_orbit_distance,
                        FMul(c.orbit_distance, SCALE - FMul(delta, zoom_speed))))])
    ELSE [c EXCEPT !.ortho_size =
                Max(100, FMul(c.ortho_size, SCALE - FMul(delta, zoom_speed)))]

\* Camera::SetZoomFactor, factor # 0
SetZoomFactor(c, factor) ==
    IF c.projection = "Orthographic"
    THEN [c EXCEPT !.zoom_factor = factor, !.ortho_size = FDiv(10 * SCALE, factor)]
    ELSE [c EXCEPT !.zoom_factor = factor]

\* Camera::Update
Update(c, width, height) == UpdateAspectRatio(c, width, height)

\* A Reset that recomputes the position before it restores the orbit
ResetUpdatesFirst(c) ==
    LET moved == [c EXCEPT !.target = Vector3(0, 0, 0)]
        stale == << moved.target[1] + FMul(FMul(moved.orbit_distance, Cos(moved.orbit_angle_y)),
                                           Cos(moved.orbit_angle_x)),
                    moved.target[2] + FMul(moved.orbit_distance, Sin(moved.orbit_angle_y)),
                    moved.target[3] + FMul(FMul(moved.orbit_distance, Cos(moved.orbit_angle_y)),
                                           Sin(moved.orbit_angle_x)) >>
    IN  [c EXCEPT !.position        = stale,
                  !.target          = Vector3(0, 0, 0),
                  !.up              = Vector3(0, SCALE, 0),
                  !.orbit_distance  = 5 * SCALE,
                  !.orbit_angle_x   = 0,
                  !.orbit_angle_y   = 0,
                  !.ortho_size      = 10 * SCALE,
                  !.zoom_factor     = SCALE,
                  !.is_ctrl_pressed = FALSE]

\* A Reset that rebuilds the whole object
ResetAllFields(c) == CameraNew

\* Camera::Reset
Reset(c) ==
    UpdateOrbitPosition(
        [c EXCEPT !.position        = Vector3(0, 0, 5 * SCALE),
                  !.target          = Vector3(0, 0, 0),
                  !.up              = Vector3(0, SCALE, 0),
                  !.orbit_distance  = 5 * SCALE,
                  !.orbit_angle_x   = 0,
                  !.orbit_angle_y   = 0,
                  !.ortho_size      = 10 * SCALE,
                  !.zoom_factor     = SCALE,
                  !.is_ctrl_pressed = FALSE])

\* Camera::FitToBounds
FitToBounds(c, min_bounds, max_bounds) ==
    LET center   == V3Scale(V3Add(min_bounds, max_bounds), SCALE \div 2)
        size     == V3Sub(max_bounds, min_bounds)
        max_size == Max(size[1], Max(size[2], size[3]))
    IN  UpdateOrbitPosition(
            [c EXCEPT !.target         = center,
                      !.orbit_distance = FMul(max_size, 2 * SCALE),
                      !.ortho_size     = max_size])

\* A HandleMouseButton in which a press of one button ends the gestures of
\* the other two
HandleMouseButtonExclusive(c, button, action, x, y) ==
    LET pressed == (action = "PRESS")
        flagged ==
            IF button \in {"LEFT", "MIDDLE", "RIGHT"}
            THEN [c EXCEPT !.is_rotating = (button = "LEFT" /\ pressed)
                                              \/ (button # "LEFT" /\ ~pressed /\ @),
                           !.is_panning  = (button = "MIDDLE" /\ pressed)
                                              \/ (button # "MIDDLE" /\ ~pressed /\ @),
                           !.is_zooming  = (button = "RIGHT" /\ pressed)
                                              \/ (button # "RIGHT" /\ ~pressed /\ @)]
            ELSE c
    IN  IF pressed
        THEN [flagged EXCEPT !.last_mouse_pos = Vector2(x, y)]
        ELSE flagged

\* Camera::HandleMouseButton
HandleMouseButton(c, button, action, x, y) ==
    LET flagged ==
            IF button = "LEFT" THEN [c EXCEPT !.is_rotating = (action = "PRESS")]
            ELSE IF button = "MIDDLE" THEN [c EXCEPT !.is_panning = (action = "PRESS")]
            ELSE IF button = "RIGHT" THEN [c EXCEPT !.is_zooming = (action = "PRESS")]
            ELSE c
    IN  IF action = "PRESS"
        THEN [flagged EXCEPT !.last_mouse_pos = Vector2(x, y)]
        ELSE flagged

\* A HandleMouseMove in which panning takes precedence over rotation
HandleMouseMovePanFirst(c, x, y) ==
    LET delta == Vector2(x - c.last_mouse_pos[1], c.last_mouse_pos[2] - y)
        moved == [c EXCEPT !.mouse_delta = delta, !.last_mouse_pos = Vector2(x, y)]
    IN  IF moved.is_panning THEN Pan(moved, delta[1], delta[2])
        ELSE IF moved.is_ctrl_pressed /\ moved.is_rotating
        THEN MoveAlongAxes(moved, delta[1], delta[2])
        ELSE IF moved.is_rotating THEN Orbit(moved, delta[1], delta[2])
        ELSE moved

\* Camera::HandleMouseMove
HandleMouseMove(c, x, y) ==
    LET delta == Vector2(x - c.last_mouse_pos[1], c.last_mouse_pos[2] - y)
        moved == [c EXCEPT !.mouse_delta = delta, !.last_mouse_pos = Vector2(x, y)]
    IN  IF moved.is_ctrl_pressed /\ moved.is_rotating
        THEN MoveAlongAxes(moved, delta[1], delta[2])
        ELSE IF moved.is_rotating THEN Orbit(moved, delta[1], delta[2])
        ELSE IF moved.is_panning THEN Pan(moved, delta[1], delta[2])
        ELSE moved

\* Camera::HandleMouseScroll
HandleMouseScroll(c, xoffset, yoffset) == Zoom(c, yoffset)

IsControlKey(key) == key \in {"LEFT_CONTROL", "RIGHT_CONTROL"}

\* A HandleKey that also acts on the repeats of a key that is held down
HandleKeyOnRepeat(c, key, action) ==
    LET ctrl == IF IsControlKey(key)
                THEN [c EXCEPT !.is_ctrl_pressed = (action = "PRESS")]
                ELSE c
    IN  IF action # "RELEASE"
        THEN CASE key = "R" -> Reset(ctrl)
               [] key = "P" ->
                    SetProjection(ctrl, IF ctrl.projection = "Perspective"
                                        THEN "Orthographic" ELSE "Perspective")
               [] OTHER -> ctrl
        ELSE ctrl

\* Camera::HandleKey
HandleKey(c, key, action) ==
    LET ctrl == IF IsControlKey(key)
                THEN [c EXCEPT !.is_ctrl_pressed = (action = "PRESS")]
                ELSE c
    IN  IF action = "PRESS"
        THEN CASE key = "R" -> Reset(ctrl)
               [] key = "P" ->
                    SetProjection(ctrl, IF ctrl.projection = "Perspective"
                                        THEN "Orthographic" ELSE "Perspective")
               [] OTHER -> ctrl
        ELSE ctrl

-----------------------------------------------------------------------------
(* UserInterface (UserInterface.h): the drawing-tool fields and the flag   *)
(* the viewport panel sets.  line_points is the committed list, two points *)
(* per segment.                                                            *)

ToolType == {"None", "Line", "Rectangle", "Circle"}

ToolboxButtons == {"Select", "Line", "Rectangle", "Circle", "Clear All"}

\* UserInterface::UserInterface: the member initialisers and the test line
UserInterfaceNew ==
    [ current_tool        |-> "None",
      is_drawing          |-> FALSE,
      line_start          |-> Vector2(0, 0),
      line_end            |-> Vector2(0, 0),
      line_points         |-> << Vector2(-500, -500), Vector2(500, 500) >>,
      mouse_over_viewport |-> FALSE ]

\* the pixel-to-viewport conversion of HandleDrawingInput and
\* HandleDrawingMouseMove: float x, y and int window_width, window_height
ViewportCoords(x, y, window_width, window_height) ==
    Vector2(TDiv(x, window_width) * 2 - SCALE, SCALE - TDiv(y, window_height) * 2)

\* A release branch that commits the segment back to front
HandleDrawingInputReversed(u, size, button, action, x, y) ==
    IF u.current_tool = "None" \/ button # "LEFT" THEN u
    ELSE IF action = "PRESS"
    THEN IF size[1] > 0 /\ size[2] > 0
         THEN [u EXCEPT !.is_drawing = TRUE,
                        !.line_start = ViewportCoords(x, y, size[1], size[2]),
                        !.line_end   = ViewportCoords(x, y, size[1], size[2])]
         ELSE [u EXCEPT !.is_drawing = TRUE]
    ELSE IF action = "RELEASE"
    THEN IF u.is_drawing /\ u.current_tool = "Line"
         THEN [u EXCEPT !.line_points = @ \o << u.line_end, u.line_start >>,
                        !.is_drawing  = FALSE]
         ELSE [u EXCEPT !.is_drawing = FALSE]
    ELSE u

\* A release branch that commits whatever shape tool is active
HandleDrawingInputAnyTool(u, size, button, action, x, y) ==
    IF u.current_tool = "None" \/ button # "LEFT" THEN u
    ELSE IF action = "PRESS"
    THEN IF size[1] > 0 /\ size[2] > 0
         THEN [u EXCEPT !.is_drawing = TRUE,
                        !.line_start = ViewportCoords(x, y, size[1], size[2]),
                        !.line_end   = ViewportCoords(x, y, size[1], size[2])]
         ELSE [u EXCEPT !.is_drawing = TRUE]
    ELSE IF action = "RELEASE"
    THEN IF u.is_drawing
         THEN [u EXCEPT !.line_points = @ \o << u.line_start, u.line_end >>,
                        !.is_drawing  = FALSE]
         ELSE [u EXCEPT !.is_drawing = FALSE]
    ELSE u

\* A release branch that commits the end point of the segment alone
HandleDrawingInputCommitsEnd(u, size, button, action, x, y) ==
    IF u.current_tool = "None" \/ button # "LEFT" THEN u
    ELSE IF action = "PRESS"
    THEN IF size[1] > 0 /\ size[2] > 0
         THEN [u EXCEPT !.is_drawing = TRUE,
                        !.line_start = ViewportCoords(x, y, size[1], size[2]),
                        !.line_end   = ViewportCoords(x, y, size[1], size[2])]
         ELSE [u EXCEPT !.is_drawing = TRUE]
    ELSE IF action = "RELEASE"
    THEN IF u.is_drawing /\ u.current_tool = "Line"
         THEN [u EXCEPT !.line_points = Append(@, u.line_end),
                        !.is_drawing  = FALSE]
         ELSE [u EXCEPT !.is_drawing = FALSE]
    ELSE u

\* UserInterface::HandleDrawingInput; size is what glfwGetWindowSize returns
HandleDrawingInput(u, size, button, action, x, y) ==
    IF u.current_tool = "None" \/ button # "LEFT" THEN u
    ELSE IF action = "PRESS"
    THEN IF size[1] > 0 /\ size[2] > 0
         THEN [u EXCEPT !.is_drawing = TRUE,
                        !.line_start = ViewportCoords(x, y, size[1], size[2]),
                        !.line_end   = ViewportCoords(x, y, size[1], size[2])]
         ELSE [u EXCEPT !.is_drawing = TRUE]
    ELSE IF action = "RELEASE"
    THEN IF u.is_drawing /\ u.current_tool = "Line"
         THEN [u EXCEPT !.line_points = @ \o << u.line_start, u.line_end >>,
                        !.is_drawing  = FALSE]
         ELSE [u EXCEPT !.is_drawing = FALSE]
    ELSE u

\* A HandleDrawingMouseMove that drags the whole segment along
HandleDrawingMouseMoveDragsStart(u, size, x, y) ==
    IF u.current_tool = "None" \/ ~u.is_drawing THEN u
    ELSE IF size[1] > 0 /\ size[2] > 0
    THEN [u EXCEPT !.line_start = u.line_end,
                   !.line_end   = ViewportCoords(x, y, size[1], size[2])]
    ELSE u

\* UserInterface::HandleDrawingMouseMove
HandleDrawingMouseMove(u, size, x, y) ==
    IF u.current_tool = "None" \/ ~u.is_drawing THEN u
    ELSE IF size[1] > 0 /\ size[2] > 0
    THEN [u EXCEPT !.line_end = ViewportCoords(x, y, size[1], size[2])]
    ELSE u

\* A Toolbox whose tool buttons leave a drag in progress alone
ToolboxKeepsDrawing(u, click) ==
    CASE click = "Select"    -> [u EXCEPT !.current_tool = "None"]
      [] click = "Line"      -> [u EXCEPT !.current_tool = "Line"]
      [] click = "Rectangle" -> [u EXCEPT !.current_tool = "Rectangle"]
      [] click = "Circle"    -> [u EXCEPT !.current_tool = "Circle"]
      [] click = "Clear All" -> [u EXCEPT !.line_points = << >>, !.is_drawing = FALSE]
      [] OTHER               -> u

\* A Toolbox whose tool buttons start a fresh drawing
ToolboxSelectDiscards(u, click) ==
    CASE click = "Select"    -> [u EXCEPT !.current_tool = "None", !.is_drawing = FALSE]
      [] click = "Line"      -> [u EXCEPT !.current_tool = "Line", !.is_drawing = FALSE,
                                          !.line_points = << >>]
      [] click = "Rectangle" -> [u EXCEPT !.current_tool = "Rectangle", !.is_drawing = FALSE]
      [] click = "Circle"    -> [u EXCEPT !.current_tool = "Circle", !.is_drawing = FALSE]
      [] click = "Clear All" -> [u EXCEPT !.line_points = << >>, !.is_drawing = FALSE]
      [] OTHER               -> u

\* A Clear All that also drops the selected tool
ToolboxClearDeselects(u, click) ==
    CASE click = "Select"    -> [u EXCEPT !.current_tool = "None", !.is_drawing = FALSE]
      [] click = "Line"      -> [u EXCEPT !.current_tool = "Line", !.is_drawing = FALSE]
      [] click = "Rectangle" -> [u EXCEPT !.current_tool = "Rectangle", !.is_drawing = FALSE]
      [] click = "Circle"    -> [u EXCEPT !.current_tool = "Circle", !.is_drawing = FALSE]
      [] click = "Clear All" -> [u EXCEPT !.line_points = << >>, !.is_drawing = FALSE,
                                          !.current_tool = "None"]
      [] OTHER               -> u

\* UserInterface::Toolbox: click is the button that reported a click in this
\* frame, "" when none did
Toolbox(u, click) ==
    CASE click = "Select"    -> [u EXCEPT !.current_tool = "None", !.is_drawing = FALSE]
      [] click = "Line"      -> [u EXCEPT !.current_tool = "Line", !.is_drawing = FALSE]
      [] click = "Rectangle" -> [u EXCEPT !.current_tool = "Rectangle", !.is_drawing = FALSE]
      [] click = "Circle"    -> [u EXCEPT !.current_tool = "Circle", !.is_drawing = FALSE]
      [] click = "Clear All" -> [u EXCEPT !.line_points = << >>, !.is_drawing = FALSE]
      [] OTHER               -> u

\* UserInterface::Viewport: hovered is what ImGui::IsWindowHovered() returns
Viewport(u, hovered) == [u EXCEPT !.mouse_over_viewport = hovered]

\* UserInterface::IsMouseOverViewport
IsMouseOverViewport == ui.mouse_over_viewport

-----------------------------------------------------------------------------
(* The console of the UserInterface.  A text is a sequence of characters,  *)
(* a character a number; console_output is a sequence of lines, a line a   *)
(* text without newline.  A string literal of the source is a text of one  *)
(* character that stands for it.                                           *)

MAX_CONSOLE_LINES == 1000

\* the character '\n'
NL == 10

\* the string literals of __init_console_redirect and Console
WelcomeReady == << 1001 >>
WelcomeHelp == << 1002 >>
Prompt == << 62, 32 >>
HelpHeader == << 1003 >>
HelpClear == << 1004 >>
HelpHelp == << 1005 >>
HelpQuit == << 1006 >>
Quitting == << 1007 >>
UnknownCommand == << 1008 >>

\* the commands the console knows, and the empty input
CommandClear == << 99 >>
CommandHelp == << 104 >>
CommandQuit == << 113 >>
NoCommand == << >>

\* the std::getline loop of __add_console_output: the lines of text from
\* character i on; a line ends before the next newline or at the end of text
RECURSIVE GetLines(_, _)
GetLines(text, i) ==
    IF i > Len(text) THEN << >>
    ELSE LET stop == CHOOSE j \in i..(Len(text) + 1) :
                        /\ j = Len(text) + 1 \/ text[j] = NL
                        /\ \A k \in i..(j - 1) : text[k] # NL
         IN  << SubSeq(text, i, stop - 1) >> \o GetLines(text, stop + 1)

\* the body of the loop, once per line: push_back, then erase(begin()) if the
\* buffer has grown beyond MAX_CONSOLE_LINES
RECURSIVE PushLines(_, _, _)
PushLines(output, lines, i) ==
    IF i > Len(lines) THEN output
    ELSE LET pushed == Append(output, lines[i])
         IN  PushLines(IF Len(pushed) > MAX_CONSOLE_LINES THEN Tail(pushed) ELSE pushed,
                       lines, i + 1)

\* A loop that drops the line just added when the buffer is full
AddConsoleOutputDropsNewest(output, text) ==
    LET all == output \o GetLines(text, 1)
    IN  IF Len(all) > MAX_CONSOLE_LINES THEN SubSeq(all, 1, MAX_CONSOLE_LINES) ELSE all

\* UserInterface::__add_console_output, on console_output
AddConsoleOutput(output, text) ==
    PushLines(output, GetLines(text, 1), 1)

ConsoleButtons == {"Clear", "Scroll to Bottom"}

\* UserInterface::Console, on console_output: the Clear button, then the
\* command entered, if any
Console(output, click, command) ==
    LET cleared == IF click = "Clear" THEN << >> ELSE output
        echoed  == AddConsoleOutput(cleared, Prompt \o command)
    IN  IF command = NoCommand THEN cleared
        ELSE IF command = CommandClear THEN << >>
        ELSE IF command = CommandHelp
             THEN AddConsoleOutput(AddConsoleOutput(AddConsoleOutput(AddConsoleOutput(
                      echoed, HelpHeader), HelpClear), HelpHelp), HelpQuit)
        ELSE IF command = CommandQuit THEN AddConsoleOutput(echoed, Quitting)
        ELSE AddConsoleOutput(echoed, UnknownCommand \o command)

\* the process before a UserInterface exists: std::cout and std::cerr on the
\* stream buffers the runtime gave them, the members at their initialisers
ConsoleNone ==
    [ phase          |-> "none",
      cout_rdbuf     |-> "original",
      cerr_rdbuf     |-> "original",
      cout_buffer    |-> "nullptr",
      cerr_buffer    |-> "nullptr",
      console_output |-> << >> ]

\* UserInterface::__init_console_redirect
InitConsoleRedirect(c) ==
    [c EXCEPT !.cout_buffer    = "allocated",
              !.cerr_buffer    = "allocated",
              !.cout_rdbuf     = "cout_buffer",
              !.cerr_rdbuf     = "cerr_buffer",
              !.console_output = AddConsoleOutput(AddConsoleOutput(@, WelcomeReady),
                                                  WelcomeHelp)]

\* UserInterface::__cleanup_console_redirect
CleanupConsoleRedirect(c) ==
    [c EXCEPT !.cout_rdbuf  = "nullptr",
              !.cerr_rdbuf  = "nullptr",
              !.cout_buffer = "nullptr",
              !.cerr_buffer = "nullptr"]

\* UserInterface::UserInterface, on the console: glfw_ok and opengl_ok are
\* what ImGui_ImplGlfw_InitForOpenGL and ImGui_ImplOpenGL3_Init return
ConstructConsole(c, glfw_ok, opengl_ok) ==
    IF glfw_ok /\ opengl_ok
    THEN [InitConsoleRedirect(c) EXCEPT !.phase = "constructed"]
    ELSE [c EXCEPT !.phase = "returned early"]

\* the drawing-tool fields before the constructor has run: the member
\* initialisers, no test line yet
UserInterfaceMembers == [UserInterfaceNew EXCEPT !.line_points = << >>]

\* UserInterface::~UserInterface, on the console
DestroyConsole(c) == [CleanupConsoleRedirect(c) EXCEPT !.phase = "destroyed"]

\* the console after a construction that succeeded
ConsoleNew == ConstructConsole(ConsoleNone, TRUE, TRUE)

\* ConsoleRedirectBuffer::xsputn and overflow: text written to a stream
\* reaches console_output if the stream is on a redirect buffer
StreamWrite(c, stream, text) ==
    LET rdbuf == IF stream = "cout" THEN c.cout_rdbuf ELSE c.cerr_rdbuf
    IN  IF rdbuf \in {"cout_buffer", "cerr_buffer"}
        THEN [c EXCEPT !.console_output = AddConsoleOutput(@, text)]
        ELSE c

-----------------------------------------------------------------------------
(* Renderer (Renderer.h, Renderer.cpp): the viewport and shader fields, and *)
(* with them the OpenGL context they refer to.  A GL object is its name, a  *)
(* positive number; framebuffers, textures, renderbuffers and programs are  *)
(* the names of the objects that are alive, names the number of names the   *)
(* context has handed out (a new object gets the next one), and            *)
(* viewport_inits the number of runs of __init_viewport so far.             *)

\* the member initialisers of Renderer, in a fresh GL context
RendererNew ==
    [ viewport_framebuffer  |-> 0,
      viewport_texture      |-> 0,
      viewport_renderbuffer |-> 0,
      viewport_width        |-> 800,
      viewport_height       |-> 600,
      viewport_initialized  |-> FALSE,
      shader_program        |-> 0,
      framebuffers          |-> {},
      textures              |-> {},
      renderbuffers         |-> {},
      programs              |-> {},
      names                 |-> 0,
      viewport_inits        |-> 0 ]

\* Renderer::__init_viewport: glGenFramebuffers, glGenTextures, glGenRenderbuffers
InitViewportGL(r) ==
    [r EXCEPT !.viewport_framebuffer  = r.names + 1,
              !.framebuffers          = @ \cup {r.names + 1},
              !.viewport_texture      = r.names + 2,
              !.textures              = @ \cup {r.names + 2},
              !.viewport_renderbuffer = r.names + 3,
              !.renderbuffers         = @ \cup {r.names + 3},
              !.names                 = @ + 3,
              !.viewport_inits        = @ + 1]

\* Renderer::__cleanup_viewport
CleanupViewport(r) ==
    [r EXCEPT !.framebuffers          = @ \ {r.viewport_framebuffer},
              !.viewport_framebuffer  = 0,
              !.textures              = @ \ {r.viewport_texture},
              !.viewport_texture      = 0,
              !.renderbuffers         = @ \ {r.viewport_renderbuffer},
              !.viewport_renderbuffer = 0,
              !.viewport_initialized  = FALSE]

\* Renderer::__init_shaders: glCreateProgram returns a new name, or 0 when it
\* fails (created is FALSE)
InitShaders(r, created) ==
    IF created
    THEN [r EXCEPT !.shader_program = r.names + 1,
                   !.programs       = @ \cup {r.names + 1},
                   !.names          = @ + 1]
    ELSE [r EXCEPT !.shader_program = 0]

\* An InitViewport that forgets the viewport it had
InitViewportLeaks(r, width, height, created) ==
    LET sized  == [r EXCEPT !.viewport_width = width, !.viewport_height = height]
        shaded == IF sized.shader_program = 0 THEN InitShaders(sized, created) ELSE sized
    IN  [InitViewportGL(shaded) EXCEPT !.viewport_initialized = TRUE]

\* Renderer::InitViewport; created is the outcome of glCreateProgram, should
\* __init_shaders run
InitViewport(r, width, height, created) ==
    LET sized   == [r EXCEPT !.viewport_width = width, !.viewport_height = height]
        cleaned == IF sized.viewport_initialized THEN CleanupViewport(sized) ELSE sized
        shaded  == IF cleaned.shader_program = 0 THEN InitShaders(cleaned, created)
                   ELSE cleaned
    IN  [InitViewportGL(shaded) EXCEPT !.viewport_initialized = TRUE]

\* Renderer::RenderViewport; created and created_again are the outcomes of
\* glCreateProgram in InitViewport and in RenderViewport itself
RenderViewport(r, width, height, created, created_again) ==
    LET resized == IF width # r.viewport_width \/ height # r.viewport_height
                   THEN InitViewport(r, width, height, created) ELSE r
        ready   == IF ~resized.viewport_initialized
                   THEN InitViewport(resized, width, height, created) ELSE resized
    IN  IF ready.shader_program = 0 THEN InitShaders(ready, created_again) ELSE ready

-----------------------------------------------------------------------------
(* The input router: the five GLFW callbacks installed by                  *)
(* WindowManager::__setup_input_callbacks.  Each callback reads the ImGui  *)
(* capture flag of its kind and the over-viewport flag and calls some of:  *)
(* the ImGui back end ("imgui": an ImGui_ImplGlfw callback), the camera    *)
(* handler ("camera": a Camera::Handle method), the drawing-tool handler   *)
(* ("drawing": a UserInterface::HandleDrawing method).                     *)

\* the largest number of platform input events of a run of Spec
MaxEvents == 2

\* the largest number of platform input events of a run of SpecDrawing
MaxDrawEvents == 3

Buttons == {"LEFT", "MIDDLE"}

ButtonActions == {"PRESS", "RELEASE"}

Keys == {"LEFT_CONTROL", "R", "P"}

KeyActions == {"PRESS", "RELEASE"}

\* cursor positions in window pixels, as floats
Pixels == { Vector2(200 * SCALE, 450 * SCALE), Vector2(600 * SCALE, 150 * SCALE) }

\* scroll wheel offsets, as floats
ScrollOffsets == { SCALE, -SCALE }

\* window sizes: the size at creation (glfwCreateWindow(800, 600, ...)) and a
\* minimised window
WindowSizes == { <<800, 600>>, <<0, 0>> }

\* the values of ImGui::GetIO()
IOFlags ==
    [ WantCaptureMouse : BOOLEAN, WantCaptureKeyboard : BOOLEAN, WantTextInput : BOOLEAN ]

\* an event as recorded in last: capture is the ImGui flag the callback
\* consulted, over the over-viewport flag it read, size the window size it
\* passed on, to the handlers it called
Op(op, code, action, x, y, capture, over, size, to) ==
    [ op |-> op, code |-> code, action |-> action, x |-> x, y |-> y,
      capture |-> capture, over |-> over, size |-> size, to |-> to ]

\* A mouse-button callback that keeps the camera out whenever ImGui captures
MouseButtonTargetsGuiFirst(io) ==
    IF io.WantCaptureMouse THEN {"imgui"} ELSE {"camera"}

\* the handlers the mouse button callback calls
MouseButtonTargets(io) ==
    IF io.WantCaptureMouse
    THEN IF IsMouseOverViewport THEN {"imgui", "camera", "drawing"} ELSE {"imgui"}
    ELSE {"camera"}

\* A cursor callback that ignores the over-viewport flag
CursorPosTargetsAlwaysBoth(io) ==
    IF io.WantCaptureMouse THEN {"imgui", "camera", "drawing"} ELSE {"camera"}

\* the handlers the cursor position callback calls
CursorPosTargets(io) ==
    IF io.WantCaptureMouse
    THEN IF IsMouseOverViewport THEN {"imgui", "camera", "drawing"} ELSE {"imgui"}
    ELSE {"camera"}

\* the handlers the scroll callback calls
ScrollTargets(io) ==
    IF io.WantCaptureMouse
    THEN IF IsMouseOverViewport THEN {"imgui", "camera"} ELSE {"imgui"}
    ELSE {"camera"}

\* the handlers the key callback calls
KeyTargets(io) ==
    IF io.WantCaptureKeyboard
    THEN IF IsMouseOverViewport THEN {"imgui", "camera"} ELSE {"imgui"}
    ELSE {"camera"}

\* A character callback gated by the keyboard-capture flag
CharTargetsOnKeyboardCapture(io) ==
    IF io.WantCaptureKeyboard THEN {"imgui"} ELSE {}

\* the handlers the character callback calls
CharTargets(io) ==
    IF io.WantTextInput THEN {"imgui"} ELSE {}

\* mouse button callback; (x, y) is what glfwGetCursorPos returns
MouseButtonCallback(io, size, button, action, x, y) ==
    /\ LET to == MouseButtonTargets(io)
       IN  /\ cam' = IF "camera" \in to
                     THEN HandleMouseButton(cam, button, action, x, y) ELSE cam
           /\ ui' = IF "drawing" \in to
                    THEN HandleDrawingInput(ui, size, button, action, x, y) ELSE ui
           /\ press_at' = IF /\ "drawing" \in to
                             /\ button = "LEFT" /\ action = "PRESS"
                             /\ ui.current_tool # "None"
                          THEN [pos |-> Vector2(x, y), size |-> size]
                          ELSE press_at
           /\ last' = Op("button", button, action, x, y, io.WantCaptureMouse,
                         IsMouseOverViewport,
                         IF "drawing" \in to THEN size ELSE <<0, 0>>, to)
    /\ steps' = steps + 1
    /\ UNCHANGED <<con, held, rnd>>

\* cursor position callback
CursorPosCallback(io, size, x, y) ==
    /\ LET to == CursorPosTargets(io)
       IN  /\ cam' = IF "camera" \in to THEN HandleMouseMove(cam, x, y) ELSE cam
           /\ ui' = IF "drawing" \in to
                    THEN HandleDrawingMouseMove(ui, size, x, y) ELSE ui
           /\ last' = Op("cursor", "", "", x, y, io.WantCaptureMouse,
                         IsMouseOverViewport,
                         IF "drawing" \in to THEN size ELSE <<0, 0>>, to)
    /\ steps' = steps + 1
    /\ UNCHANGED <<press_at, con, held, rnd>>

\* scroll callback
ScrollCallback(io, xoffset, yoffset) ==
    /\ LET to == ScrollTargets(io)
       IN  /\ cam' = IF "camera" \in to
                     THEN HandleMouseScroll(cam, xoffset, yoffset) ELSE cam
           /\ last' = Op("scroll", "", "", xoffset, yoffset, io.WantCaptureMouse,
                         IsMouseOverViewport, <<0, 0>>, to)
    /\ steps' = steps + 1
    /\ UNCHANGED <<ui, press_at, con, held, rnd>>

\* key callback
KeyCallback(io, key, action) ==
    /\ LET to == KeyTargets(io)
       IN  /\ cam' = IF "camera" \in to THEN HandleKey(cam, key, action) ELSE cam
           /\ last' = Op("key", key, action, 0, 0, io.WantCaptureKeyboard,
                         IsMouseOverViewport, <<0, 0>>, to)
    /\ steps' = steps + 1
    /\ UNCHANGED <<ui, press_at, con, held, rnd>>

\* character callback
CharCallback(io) ==
    /\ last' = Op("char", "", "", 0, 0, io.WantTextInput,
                  IsMouseOverViewport, <<0, 0>>, CharTargets(io))
    /\ steps' = steps + 1
    /\ UNCHANGED <<cam, ui, press_at, con, held, rnd>>

\* what ImGui::GetContentRegionAvail() returns in Viewport: the viewport
\* panel as docked in the window
PanelSize == << 640, 480 >>

\* UserInterface::DrawFrame, once per iteration of WindowManager::Run:
\* Viewport stores the hover flag (hovered is what ImGui::IsWindowHovered()
\* returns) and has the renderer render the viewport at the size of the
\* panel, glCreateProgram succeeding; Toolbox and Console apply the button
\* clicked in this frame (click, "" if none), and Console runs the command
\* entered in this frame (command, the empty text if none), which counts as
\* an input event
DrawFrame(hovered, click, command) ==
    /\ ui' = Toolbox(Viewport(ui, hovered), click)
    /\ rnd' = RenderViewport(rnd, PanelSize[1], PanelSize[2], TRUE, TRUE)
    /\ con' = [con EXCEPT !.console_output = Console(@, click, command)]
    /\ steps' = IF command = NoCommand THEN steps ELSE steps + 1
    /\ UNCHANGED <<cam, last, press_at, held>>

\* after WindowManager::WindowManager()
Init ==
    /\ cam = CameraNew
    /\ ui = UserInterfaceNew
    /\ last = Op("none", "", "", 0, 0, FALSE, FALSE, <<0, 0>>, {})
    /\ press_at = [pos |-> Vector2(0, 0), size |-> <<0, 0>>]
    /\ steps = 0
    /\ rnd = RendererNew
    /\ held = {}
    /\ con = ConsoleNew

\* WindowManager::Run: glfwPollEvents runs the callbacks of the pending events,
\* then a frame is drawn
Next ==
    \/ /\ steps < MaxEvents
       /\ \/ \E io \in IOFlags, s \in WindowSizes,
                b \in Buttons, a \in ButtonActions, p \in Pixels :
                MouseButtonCallback(io, s, b, a, p[1], p[2])
          \/ \E io \in IOFlags, s \in WindowSizes, p \in Pixels :
                CursorPosCallback(io, s, p[1], p[2])
          \/ \E io \in IOFlags, dy \in ScrollOffsets : ScrollCallback(io, 0, dy)
          \/ \E io \in IOFlags, k \in Keys, a \in KeyActions : KeyCallback(io, k, a)
          \/ \E io \in IOFlags : CharCallback(io)
    \/ \E h \in BOOLEAN, c \in ToolboxButtons \cup {""} : DrawFrame(h, c, NoCommand)

\* the runs in which the only platform events are those of the left button
\* and of the cursor, the events the drawing tool acts on
NextDrawing ==
    \/ /\ steps < MaxDrawEvents
       /\ \/ \E io \in IOFlags, s \in WindowSizes, a \in ButtonActions, p \in Pixels :
                MouseButtonCallback(io, s, "LEFT", a, p[1], p[2])
          \/ \E io \in IOFlags, s \in WindowSizes, p \in Pixels :
                CursorPosCallback(io, s, p[1], p[2])
    \/ \E h \in BOOLEAN, c \in ToolboxButtons \cup {""} : DrawFrame(h, c, NoCommand)

Spec == Init /\ [][Next]_vars

SpecDrawing == Init /\ [][NextDrawing]_vars

-----------------------------------------------------------------------------
(* The camera driven through its public interface: every step is one call  *)
(* of a method of Camera on the camera of the renderer.  last records the  *)
(* method called, and for a button or key handler the button or key and    *)
(* the action.                                                             *)

\* the largest number of method calls of a run of SpecCamera
MaxCalls == 3

Projections == {"Perspective", "Orthographic"}

\* arguments of Update: the size of a viewport, of a minimised window, and of
\* a viewport panel narrowed to no width
FramebufferSizes == { <<800, 600>>, <<0, 0>>, <<0, 600>> }

\* arguments of SetOrbitDistance: below the smallest distance, and inside the range
OrbitDistances == { 50, 8 * SCALE }

\* arguments of Orbit, Pan and MoveAlongAxes, pointer deltas in pixels
PointerDeltas == { Vector2(100 * SCALE, -50 * SCALE) }

\* arguments of Orbit: a turn about the vertical axis and the turn back
HorizontalDeltas == { Vector2(100 * SCALE, 0), Vector2(-100 * SCALE, 0) }

\* arguments of SetPosition: straight above the target, off to a side, and
\* the target of a fresh camera itself
Positions ==
    { Vector3(0, 5 * SCALE, 0), Vector3(2 * SCALE, SCALE, -2 * SCALE), Vector3(0, 0, 0) }

\* arguments of FitToBounds: a cube, a single point, a long box, and a box
\* given with its corners exchanged
Boxes ==
    { << Vector3(-SCALE, -SCALE, -SCALE), Vector3(SCALE, SCALE, SCALE) >>,
      << Vector3(0, 0, 0), Vector3(0, 0, 0) >>,
      << Vector3(0, 0, 0), Vector3(550 * SCALE, SCALE, SCALE) >>,
      << Vector3(SCALE, SCALE, SCALE), Vector3(-SCALE, -SCALE, -SCALE) >> }

\* arguments of Zoom: one notch in, one notch out, and a delta that takes
\* the factor 1 - delta * zoom_speed below zero
ZoomDeltas == { SCALE, -SCALE, 12 * SCALE }

\* arguments of Camera::HandleMouseButton
MouseButtons == {"LEFT", "MIDDLE", "RIGHT"}

\* the action argument of Camera::HandleKey: GLFW_PRESS, GLFW_REPEAT (the
\* platform repeats a key that is held down) and GLFW_RELEASE
CameraKeyActions == {"PRESS", "REPEAT", "RELEASE"}

\* one call of a method of the camera: (x, y) are the pointer position of a
\* button call, the width and height of an Update call and the deltas of an
\* Orbit call, and y the delta of a zoom or scroll call
CameraCall(method, code, action, x, y, c) ==
    /\ cam' = c
    /\ last' = Op(method, code, action, x, y, FALSE, FALSE, <<0, 0>>, {"camera"})
    /\ steps' = steps + 1
    /\ UNCHANGED <<ui, press_at, con, held, rnd>>

NextCamera ==
    /\ steps < MaxCalls
    /\ \/ \E proj \in Projections :
             CameraCall("SetProjection", "", "", 0, 0, SetProjection(cam, proj))
       \/ CameraCall("SetFieldOfView", "", "", 0, 0, SetFieldOfView(cam, 60 * SCALE))
       \/ CameraCall("SetOrthographicSize", "", "", 0, 0,
                     SetOrthographicSize(cam, 20 * SCALE))
       \/ CameraCall("SetClippingPlanes", "", "", 0, 0,
                     SetClippingPlanes(cam, SCALE \div 2, 500 * SCALE))
       \/ \E pos \in Positions :
             CameraCall("SetPosition", "", "", 0, 0, SetPosition(cam, pos))
       \/ CameraCall("SetTarget", "", "", 0, 0, SetTarget(cam, Vector3(SCALE, 0, 0)))
       \/ \E d \in OrbitDistances :
             CameraCall("SetOrbitDistance", "", "", 0, 0, SetOrbitDistance(cam, d))
       \/ CameraCall("SetOrbitAngles", "", "", 0, 0,
                     SetOrbitAngles(cam, SCALE \div 2, 2 * SCALE))
       \/ \E d \in PointerDeltas \cup HorizontalDeltas :
             CameraCall("Orbit", "", "", d[1], d[2], Orbit(cam, d[1], d[2]))
       \/ \E d \in PointerDeltas :
             CameraCall("Pan", "", "", 0, 0, Pan(cam, d[1], d[2]))
       \/ \E d \in PointerDeltas :
             CameraCall("MoveAlongAxes", "", "", 0, 0, MoveAlongAxes(cam, d[1], d[2]))
       \/ \E delta \in ZoomDeltas :
             CameraCall("Zoom", "", "", 0, delta, Zoom(cam, delta))
       \/ CameraCall("SetZoomFactor", "", "", 0, 0, SetZoomFactor(cam, 2 * SCALE))
       \/ \E s \in FramebufferSizes :
             CameraCall("Update", "", "", s[1], s[2], Update(cam, s[1], s[2]))
       \/ CameraCall("Reset", "", "", 0, 0, Reset(cam))
       \/ \E box \in Boxes :
             CameraCall("FitToBounds", "", "", 0, 0, FitToBounds(cam, box[1], box[2]))
       \/ \E b \in MouseButtons, a \in ButtonActions, p \in Pixels :
             CameraCall("HandleMouseButton", b, a, p[1], p[2],
                        HandleMouseButton(cam, b, a, p[1], p[2]))
       \/ \E p \in Pixels :
             CameraCall("HandleMouseMove", "", "", p[1], p[2],
                        HandleMouseMove(cam, p[1], p[2]))
       \/ \E dy \in ScrollOffsets :
             CameraCall("HandleMouseScroll", "", "", 0, dy, HandleMouseScroll(cam, 0, dy))
       \/ \E k \in Keys, a \in CameraKeyActions :
             CameraCall("HandleKey", k, a, 0, 0, HandleKey(cam, k, a))

SpecCamera == Init /\ [][NextCamera]_vars

-----------------------------------------------------------------------------
(* The keyboard seen by the camera: every step is one key event of the      *)
(* platform handed to Camera::HandleKey.  held is the set of the keys that  *)
(* are down: the platform reports a press of a key that is up, and a repeat *)
(* or a release of a key that is down.                                      *)

\* the largest number of key events of a run of SpecKeys
MaxKeyEvents == 4

\* the keys HandleKey tests: both Control keys, the reset and the projection key
CameraKeys == {"LEFT_CONTROL", "RIGHT_CONTROL", "R", "P"}

\* one key event
KeyEvent(key, action) ==
    /\ action = "PRESS" => key \notin held
    /\ action \in {"REPEAT", "RELEASE"} => key \in held
    /\ cam' = HandleKey(cam, key, action)
    /\ held' = CASE action = "PRESS"   -> held \cup {key}
                 [] action = "RELEASE" -> held \ {key}
                 [] OTHER              -> held
    /\ last' = Op("HandleKey", key, action, 0, 0, FALSE, FALSE, <<0, 0>>, {"camera"})
    /\ steps' = steps + 1
    /\ UNCHANGED <<ui, press_at, con, rnd>>

NextKeys ==
    /\ steps < MaxKeyEvents
    /\ \E k \in CameraKeys, a \in CameraKeyActions : KeyEvent(k, a)

SpecKeys == Init /\ [][NextKeys]_vars

-----------------------------------------------------------------------------
(* The renderer driven through its viewport interface: every step is one    *)
(* call of InitViewport or RenderViewport.  last records the method and the *)
(* size requested.                                                          *)

\* the largest number of calls of a run of SpecRenderer
MaxRenderCalls == 4

\* the sizes requested: the size the members start with, another panel
\* size, and a panel without area
ViewportSizes == { <<800, 600>>, <<640, 480>>, <<0, 0>> }

\* one call of a viewport method of the renderer
RendererCall(method, width, height, r) ==
    /\ rnd' = r
    /\ last' = Op(method, "", "", width, height, FALSE, FALSE, <<0, 0>>, {"renderer"})
    /\ steps' = steps + 1
    /\ UNCHANGED <<cam, ui, press_at, con, held>>

NextRenderer ==
    /\ steps < MaxRenderCalls
    /\ \/ \E s \in ViewportSizes, created \in BOOLEAN :
             RendererCall("InitViewport", s[1], s[2],
                          InitViewport(rnd, s[1], s[2], created))
       \/ \E s \in ViewportSizes, created \in BOOLEAN, created_again \in BOOLEAN :
             RendererCall("RenderViewport", s[1], s[2],
                          RenderViewport(rnd, s[1], s[2], created, created_again))

SpecRenderer == Init /\ [][NextRenderer]_vars

-----------------------------------------------------------------------------
(* The life of the UserInterface object and its console: construction,     *)
(* text written to std::cout and std::cerr, frames in which the console    *)
(* panel is used, and destruction.  steps counts the writes and the        *)
(* console commands, and last records the step, and for a write the stream *)
(* and the text.  The writer is a logger: after a few writes of any of     *)
(* several texts it writes one line per write, which carries the number of *)
(* the write; the console panel is used during the first writes.           *)

\* the largest number of writes and console commands of a run of SpecConsole
MaxWrites == 1002

\* the number of writes that may be of any text, and up to which the console
\* panel is used
VariedWrites == 2

Streams == {"cout", "cerr"}

\* the texts written first: a word without newline, two lines with an empty
\* line between them, and a single newline (std::endl)
Texts == { << 104, 105 >>, << 97, NL, NL, 98, NL >>, << NL >> }

\* the line of the logger for write number n
LogLine(n) == << 10000 + n, NL >>

\* the commands entered in the console: the three it knows and another one
Commands == { CommandClear, CommandHelp, CommandQuit, << 120 >> }

ConsoleOp(op, stream, text) == Op(op, stream, text, 0, 0, FALSE, FALSE, <<0, 0>>, {})

\* UserInterface::UserInterface
Construct(glfw_ok, opengl_ok) ==
    /\ con.phase = "none"
    /\ con' = ConstructConsole(con, glfw_ok, opengl_ok)
    /\ ui' = IF glfw_ok /\ opengl_ok THEN UserInterfaceNew ELSE ui
    /\ last' = ConsoleOp("construct", "", << >>)
    /\ UNCHANGED <<cam, press_at, steps, held, rnd>>

\* operator<< on std::cout or std::cerr while the UserInterface exists
Write(stream, text) ==
    /\ con.phase \in {"constructed", "returned early"}
    /\ con' = StreamWrite(con, stream, text)
    /\ last' = ConsoleOp("write", stream, text)
    /\ steps' = steps + 1
    /\ UNCHANGED <<cam, ui, press_at, held, rnd>>

\* UserInterface::~UserInterface
Destroy ==
    /\ con.phase \in {"constructed", "returned early"}
    /\ con' = DestroyConsole(con)
    /\ last' = ConsoleOp("destroy", "", << >>)
    /\ UNCHANGED <<cam, ui, press_at, steps, held, rnd>>

InitConsole ==
    /\ cam = CameraNew
    /\ ui = UserInterfaceMembers
    /\ last = ConsoleOp("none", "", << >>)
    /\ press_at = [pos |-> Vector2(0, 0), size |-> <<0, 0>>]
    /\ steps = 0
    /\ rnd = RendererNew
    /\ held = {}
    /\ con = ConsoleNone

NextConsole ==
    \/ \E glfw_ok \in BOOLEAN, opengl_ok \in BOOLEAN : Construct(glfw_ok, opengl_ok)
    \/ /\ steps < VariedWrites
       /\ \E stream \in Streams, text \in Texts : Write(stream, text)
    \/ /\ VariedWrites <= steps /\ steps < MaxWrites
       /\ \E stream \in Streams : Write(stream, LogLine(steps))
    \/ /\ con.phase = "constructed" /\ steps <= VariedWrites
       /\ \E click \in ConsoleButtons : DrawFrame(FALSE, click, NoCommand)
    \/ /\ con.phase = "constructed" /\ steps < VariedWrites
       /\ \E command \in Commands : DrawFrame(FALSE, "", command)
    \/ Destroy

SpecConsole == InitConsole /\ [][NextConsole]_vars

-----------------------------------------------------------------------------
(* Properties of the input router.                                         *)

\* a step that handles one platform input event
EventStep == steps' = steps + 1

MouseOrKeyOps == {"button", "cursor", "scroll", "key"}

C2_CaptureOffViewportGuiOnly ==
    [][ (EventStep /\ last'.op \in MouseOrKeyOps /\ last'.capture /\ ~last'.over)
            => (last'.to = {"imgui"} /\ cam' = cam /\ ui' = ui) ]_vars

\* C2 witness: a left release off the viewport under capture reached ImGui
\* only, so the camera still rotates and the tool still draws
C2_Witness ==
    /\ last.op = "button" /\ last.code = "LEFT" /\ last.action = "RELEASE"
    /\ last.capture /\ ~last.over
    /\ last.to = {"imgui"}
    /\ cam.is_rotating /\ ui.is_drawing

\* C3 (as claimed): a mouse-button or cursor event arriving while ImGui does
\* not want the mouse goes to the camera handler and to the drawing-tool
\* handler, and not to ImGui.
C3_NoCaptureCameraAndDrawing ==
    (last.op \in {"button", "cursor"} /\ ~last.capture)
        => last.to = {"camera", "drawing"}

\* C4 (as claimed): an event whose capture ImGui wants never reaches the
\* camera: no camera handler is called and no camera field changes.
C4_GuiPriorityOverCamera ==
    [][ (EventStep /\ last'.op \in MouseOrKeyOps /\ last'.capture)
            => ("camera" \notin last'.to /\ cam' = cam) ]_vars

\* C5: a character event goes to ImGui exactly when ImGui wants text input,
\* whatever the other flags, to no other handler, and changes no camera or
\* drawing-tool state.
C5_CharOnlyToGui ==
    [][ (EventStep /\ last'.op = "char")
            => /\ last'.to = (IF last'.capture THEN {"imgui"} ELSE {})
               /\ cam' = cam /\ ui' = ui ]_vars

\* C5 witness: a character was forwarded to ImGui while a drag was latched in
\* the camera and in the drawing tool
C5_Witness ==
    /\ last.op = "char" /\ last.capture /\ last.to = {"imgui"}
    /\ cam.is_rotating /\ ui.is_drawing

-----------------------------------------------------------------------------
(* Properties of the drawing tool.                                         *)

\* the last event was a left press (release) that reached the drawing tool
LeftToDrawing(e, action) ==
    /\ e.op = "button" /\ e.code = "LEFT" /\ e.action = action
    /\ "drawing" \in e.to

Positive(size) == size[1] > 0 /\ size[2] > 0

\* C6 (as claimed): with the Line tool and a positive window size, a left
\* press at one pixel followed by a left release at another appends exactly
\* one segment: the conversion of the press pixel, then the conversion of the
\* release pixel.
C6_LineRoundTrip ==
    [][ ( /\ EventStep /\ LeftToDrawing(last', "RELEASE")
          /\ ui.current_tool = "Line" /\ ui.is_drawing
          /\ Positive(press_at.size) /\ last'.size = press_at.size )
        => ui'.line_points = ui.line_points \o
              << ViewportCoords(press_at.pos[1], press_at.pos[2],
                                press_at.size[1], press_at.size[2]),
                 ViewportCoords(last'.x, last'.y, last'.size[1], last'.size[2]) >> ]_vars

\* a left release reaches the drawing tool right after the left press that
\* began the drawing: no pointer move and no toolbox click lies between them
ReleaseRightAfterPress ==
    /\ EventStep
    /\ LeftToDrawing(last, "PRESS") /\ ui.is_drawing
    /\ LeftToDrawing(last', "RELEASE")

\* C7 (as claimed): a left press followed by a left release with no pointer
\* move between them leaves the committed list as it was and the tool Idle.
C7_ReleaseWithoutMoveDiscards ==
    [][ ReleaseRightAfterPress
        => (ui'.line_points = ui.line_points /\ ~ui'.is_drawing) ]_vars

\* C7 (amended): such a release leaves the tool Idle; it leaves the committed
\* list as it was only for Rectangle and Circle; with the Line tool it commits
\* the segment (lineStart, lineEnd), whose two ends are both the conversion of
\* the press pixel when the window size at the press was positive.
C7_ReleaseWithoutMoveCommitsLine ==
    [][ ReleaseRightAfterPress
        => /\ ~ui'.is_drawing
           /\ ui.current_tool \in {"Rectangle", "Circle"}
                 => ui'.line_points = ui.line_points
           /\ ui.current_tool = "Line"
                 => /\ ui'.line_points = ui.line_points \o << ui.line_start, ui.line_end >>
                    /\ Positive(press_at.size)
                          => /\ ui.line_start = ui.line_end
                             /\ ui.line_start =
                                  ViewportCoords(press_at.pos[1], press_at.pos[2],
                                                 press_at.size[1], press_at.size[2]) ]_vars

\* C7 witness: the release that followed the press at once has committed a
\* segment of no length on top of the test line, at the press position
C7_Witness ==
    /\ LeftToDrawing(last, "RELEASE") /\ steps = 2
    /\ ui.current_tool = "Line" /\ ~ui.is_drawing
    /\ Len(ui.line_points) = 4
    /\ ui.line_points[3] = ui.line_points[4]
    /\ Positive(press_at.size)
    /\ ui.line_points[3] = ViewportCoords(press_at.pos[1], press_at.pos[2],
                                          press_at.size[1], press_at.size[2])

\* C8: a left release that reaches the drawing tool while it is Drawing ends
\* the drawing and appends exactly (lineStart, lineEnd) for the Line tool and
\* nothing for Rectangle and Circle; a release while Idle appends nothing.
C8_ReleaseCommitsLineOnly ==
    [][ (EventStep /\ LeftToDrawing(last', "RELEASE"))
        => IF ui.is_drawing
           THEN /\ ~ui'.is_drawing
                /\ ui.current_tool = "Line"
                      => ui'.line_points = ui.line_points \o << ui.line_start, ui.line_end >>
                /\ ui.current_tool \in {"Rectangle", "Circle"}
                      => ui'.line_points = ui.line_points
           ELSE ui'.line_points = ui.line_points /\ ~ui'.is_drawing ]_vars

\* C8 witness: press, move to another pixel, release: the Line tool is Idle
\* and the committed list ends with a segment between two different points
C8_Witness ==
    /\ LeftToDrawing(last, "RELEASE") /\ steps = 3
    /\ ui.current_tool = "Line" /\ ~ui.is_drawing
    /\ Len(ui.line_points) = 4
    /\ ui.line_points[3] = ui.line_start /\ ui.line_points[4] = ui.line_end
    /\ ui.line_start # ui.line_end

\* C9: the Clear All button leaves the committed list empty and the tool
\* Idle, and keeps the selected tool.
C9_ClearAll ==
    [][ (\E h \in BOOLEAN : DrawFrame(h, "Clear All", NoCommand))
        => /\ ui'.line_points = << >>
           /\ ~ui'.is_drawing
           /\ ui'.current_tool = ui.current_tool ]_vars

\* C9 witness: after a segment was drawn the list is empty again, which only
\* Clear All does, and the Line tool is still selected
C9_Witness ==
    /\ steps = 3 /\ LeftToDrawing(last, "RELEASE")
    /\ ui.line_points = << >> /\ ~ui.is_drawing
    /\ ui.current_tool = "Line"

\* the step is a button press that reaches the drawing tool
PressToDrawing ==
    /\ EventStep
    /\ last'.op = "button" /\ last'.action = "PRESS"
    /\ "drawing" \in last'.to

\* C19: a left press that reaches the drawing tool while a tool
\* is selected puts it in Drawing with lineStart and lineEnd both the
\* conversion of the press position under the window size of the press;
\* a press with no tool selected, or of another button, changes no
\* drawing-tool state.
C19_PressStartsDrawing ==
    [][ PressToDrawing
        => IF last'.code = "LEFT" /\ ui.current_tool # "None"
           THEN /\ ui'.is_drawing
                /\ Positive(last'.size)
                /\ ui'.line_start = ViewportCoords(last'.x, last'.y,
                                                   last'.size[1], last'.size[2])
                /\ ui'.line_end = ui'.line_start
           ELSE ui' = ui ]_vars

\* the step is a pointer move that reaches the drawing tool
MoveToDrawing ==
    /\ EventStep
    /\ last'.op = "cursor" /\ "drawing" \in last'.to

\* C20: a pointer move that reaches the drawing tool while it is Drawing, in
\* a window of positive size, sets lineEnd to the conversion of the pointer
\* position and changes nothing else; with no tool selected, while not
\* Drawing, or in a window without positive size it changes nothing.
C20_MoveUpdatesLineEndOnly ==
    [][ MoveToDrawing
        => IF ui.current_tool # "None" /\ ui.is_drawing /\ Positive(last'.size)
           THEN ui' = [ui EXCEPT !.line_end =
                          ViewportCoords(last'.x, last'.y, last'.size[1], last'.size[2])]
           ELSE ui' = ui ]_vars

\* C20 witness: after a press the pointer has moved to another pixel: the
\* tool is still Drawing, lineEnd is at the pointer and lineStart is not
C20_Witness ==
    /\ last.op = "cursor" /\ "drawing" \in last.to /\ Positive(last.size)
    /\ ui.is_drawing /\ ui.current_tool = "Line"
    /\ ui.line_end = ViewportCoords(last.x, last.y, last.size[1], last.size[2])
    /\ ui.line_start # ui.line_end
    /\ Positive(press_at.size)
    /\ ui.line_start = ViewportCoords(press_at.pos[1], press_at.pos[2],
                                      press_at.size[1], press_at.size[2])

-----------------------------------------------------------------------------
(* Properties of the camera.                                               *)

\* the step is a call of Reset, direct or through the R key
ResetStep ==
    /\ EventStep
    /\ \/ last'.op = "Reset"
       \/ last'.op = "HandleKey" /\ last'.code = "R" /\ last'.action = "PRESS"

\* the fields Reset assigns, position and the orbit parameters among them
ResetFields ==
    { "position", "target", "up", "orbit_distance", "orbit_angle_x",
      "orbit_angle_y", "ortho_size", "zoom_factor", "is_ctrl_pressed" }

\* the fields Reset leaves as they are
KeptFields ==
    { "projection", "fov", "aspect_ratio", "near_plane", "far_plane",
      "is_rotating", "is_panning", "is_zooming", "last_mouse_pos", "mouse_delta" }

\* C10 (as claimed): after Reset every field of the camera equals its value
\* in a freshly constructed camera.
C10_ResetRestoresAllFields ==
    [][ ResetStep => cam' = CameraNew ]_vars

\* C10 (amended): after Reset the position, target, up vector, orbit distance
\* and angles, orthographic size, zoom factor and is_ctrl_pressed equal their
\* values in a freshly constructed camera; the projection mode, field of view,
\* aspect ratio, clipping planes, the flags is_rotating, is_panning and
\* is_zooming, last_mouse_pos and mouse_delta keep the values they had before
\* the call.
C10_ResetRestoresPlacement ==
    [][ ResetStep
        => /\ \A f \in ResetFields : cam'[f] = CameraNew[f]
           /\ \A f \in KeptFields : cam'[f] = cam[f] ]_vars

\* C10 witness: Reset was called on a camera switched to the orthographic
\* projection in the middle of a rotation: it is in place and still differs
\* from a fresh camera
C10_Witness ==
    /\ last.op = "Reset" /\ steps = 3
    /\ cam.position = CameraNew.position
    /\ cam.orbit_distance = CameraNew.orbit_distance
    /\ cam.projection = "Orthographic"
    /\ cam.is_rotating
    /\ cam # CameraNew

\* the last call was a call of Reset, direct or through the R key
ResetDone ==
    \/ last.op = "Reset"
    \/ last.op = "HandleKey" /\ last.code = "R" /\ last.action = "PRESS"

\* C11: in the state a Reset leaves, a second Reset changes no field of the
\* camera: Reset(); Reset() ends in the state of a single Reset().
C11_ResetIdempotent ==
    ResetDone => Reset(cam) = cam

\* C11 witness: Reset was called after two calls that changed fields it
\* does not assign
C11_Witness ==
    /\ ResetDone /\ steps = 3
    /\ cam.is_panning
    /\ cam.fov = 60 * SCALE

\* C12 (as claimed): the stored orbit distance always lies between
\* min_orbit_distance and max_orbit_distance.
C12_OrbitDistanceInRange ==
    /\ min_orbit_distance <= cam.orbit_distance
    /\ cam.orbit_distance <= max_orbit_distance

\* C13 (as claimed): the stored elevation angle always lies within 89
\* degrees of the horizontal.
C13_ElevationInRange ==
    /\ -Radians89 <= cam.orbit_angle_y
    /\ cam.orbit_angle_y <= Radians89

\* two coordinates agree as far as the arithmetic can tell: three decimals
\* are kept of every product, quotient, sine and arcsine, and near the poles
\* the arcsine of SetPosition resolves the elevation only to a few hundredths
\* of a radian, so the slack is a twentieth of the orbit distance
Near(a, b, d) == Abs(a - b) <= 4 + TDiv(Abs(d), 20)

\* the position is the one the orbit formula gives for the stored target,
\* distance and angles
OrbitConsistent(c) ==
    LET p == UpdateOrbitPosition(c).position
    IN  \A i \in 1..3 : Near(c.position[i], p[i], c.orbit_distance)

\* C14: in every reachable state the position of the camera is derivable
\* from the stored target, orbit distance and orbit angles by the orbit
\* formula.
C14_OrbitConsistency ==
    OrbitConsistent(cam)

\* C14 witness: SetPosition has put the camera off to a side and the orbit
\* stored with it gives that position back
C14_Witness ==
    /\ last.op = "SetPosition"
    /\ cam.position = Vector3(2 * SCALE, SCALE, -2 * SCALE)
    /\ cam.orbit_angle_x # 0 /\ cam.orbit_angle_y # 0
    /\ OrbitConsistent(cam)

\* the step is a call of Zoom, direct or through the scroll handler
ZoomStep ==
    /\ EventStep
    /\ last'.op \in {"Zoom", "HandleMouseScroll"}

\* C15 (as claimed): in the perspective projection Zoom with a positive delta leaves the
\* orbit distance smaller than it was, or at min_orbit_distance; with a
\* negative delta larger than it was, or at max_orbit_distance; it changes
\* neither the orthographic size nor the target nor the orbit angles.
C15_ZoomMonotone ==
    [][ (ZoomStep /\ cam.projection = "Perspective")
        => /\ last'.y > 0 => \/ cam'.orbit_distance < cam.orbit_distance
                             \/ cam'.orbit_distance = min_orbit_distance
           /\ last'.y < 0 => \/ cam'.orbit_distance > cam.orbit_distance
                             \/ cam'.orbit_distance = max_orbit_distance
           /\ cam'.ortho_size = cam.ortho_size
           /\ cam'.target = cam.target
           /\ cam'.orbit_angle_x = cam.orbit_angle_x
           /\ cam'.orbit_angle_y = cam.orbit_angle_y ]_vars

\* the gesture flag of a mouse button
GestureFlag(button) ==
    CASE button = "LEFT" -> "is_rotating"
      [] button = "MIDDLE" -> "is_panning"
      [] button = "RIGHT" -> "is_zooming"

\* C16: after HandleMouseButton the flag of the button is true iff the
\* action is a press, the flags of the other two buttons are as before, and
\* last_mouse_pos is the pointer position after a press and as before after
\* a release.
C16_GestureFlagLatch ==
    [][ (EventStep /\ last'.op = "HandleMouseButton")
        => /\ cam'[GestureFlag(last'.code)] = (last'.action = "PRESS")
           /\ \A b \in MouseButtons \ {last'.code} :
                 cam'[GestureFlag(b)] = cam[GestureFlag(b)]
           /\ cam'.last_mouse_pos = IF last'.action = "PRESS"
                                    THEN Vector2(last'.x, last'.y)
                                    ELSE cam.last_mouse_pos ]_vars

\* C16 witness: left and right were pressed and right released at another
\* pixel: the rotation is still on, the zoom off, and the pointer position
\* is the one of the last press
C16_Witness ==
    /\ last.op = "HandleMouseButton" /\ last.code = "RIGHT" /\ last.action = "RELEASE"
    /\ steps = 3
    /\ cam.is_rotating /\ ~cam.is_zooming /\ ~cam.is_panning
    /\ cam.last_mouse_pos # Vector2(last.x, last.y)

-----------------------------------------------------------------------------
(* Properties of the console.                                              *)

\* C17 (as claimed): once the UserInterface is destroyed, std::cout and
\* std::cerr are on the stream buffers they had before it was constructed,
\* also when the constructor returned early.
C17_StreamsRestored ==
    con.phase = "destroyed"
        => (con.cout_rdbuf = "original" /\ con.cerr_rdbuf = "original")

\* the last n elements of a sequence, all of them if it has no more than n
KeepLast(seq, n) ==
    IF Len(seq) <= n THEN seq ELSE SubSeq(seq, Len(seq) - n + 1, Len(seq))

\* the step writes a text that reaches the console
RedirectedWrite ==
    /\ con.phase = "constructed"
    /\ last'.op = "write"
    /\ \E stream \in Streams : Write(stream, last'.action)

\* C18: console_output never holds more than MAX_CONSOLE_LINES lines, and a
\* text added leaves the old lines followed by the new ones, in their order,
\* less the oldest of them that do not fit.
C18_ConsoleBufferLimit ==
    [][ /\ Len(con'.console_output) <= MAX_CONSOLE_LINES
        /\ RedirectedWrite
              => con'.console_output =
                    KeepLast(con.console_output \o GetLines(last'.action, 1),
                             MAX_CONSOLE_LINES) ]_vars

\* C18 witness: a line was written to a full buffer: the buffer is still
\* full, the welcome lines have gone, and the newest line is the one written
C18_Witness ==
    /\ last.op = "write" /\ steps = MaxWrites
    /\ con.phase = "constructed"
    /\ Len(con.console_output) = MAX_CONSOLE_LINES
    /\ con.console_output[1] \notin {WelcomeReady, WelcomeHelp}
    /\ << con.console_output[MAX_CONSOLE_LINES] >> = GetLines(last.action, 1)

-----------------------------------------------------------------------------
(* Properties of the committed list and of the drawing state.               *)

\* the frame in which the Clear All button is clicked
ClearAllStep == \E h \in BOOLEAN : DrawFrame(h, "Clear All", NoCommand)

IsPrefix(s, t) == Len(s) <= Len(t) /\ SubSeq(t, 1, Len(s)) = s

\* C21: between two clicks of Clear All the committed list only grows at its
\* end: the list before a step is a prefix of the list after it, and the
\* only step that extends it is a left release that reaches the drawing
\* tool with the Line tool selected.
C21_CommittedAppendOnly ==
    [][ ~ClearAllStep
        => /\ IsPrefix(ui.line_points, ui'.line_points)
           /\ ui'.line_points # ui.line_points
                => /\ EventStep /\ LeftToDrawing(last', "RELEASE")
                   /\ ui.current_tool = "Line"
                   /\ Len(ui'.line_points) = Len(ui.line_points) + 2 ]_vars

\* C21 witness: a segment was committed behind the test segment of the
\* constructor, which is still the head of the list, and the pointer has
\* moved since
C21_Witness ==
    /\ last.op = "cursor" /\ "drawing" \in last.to
    /\ Len(ui.line_points) = 4
    /\ SubSeq(ui.line_points, 1, 2) = UserInterfaceNew.line_points
    /\ ui.line_points[3] = ui.line_points[4]

-----------------------------------------------------------------------------
(* Properties of the input handlers of the camera.                          *)

\* the fields that place the camera: position, target and the orbit triple
PoseFields == { "position", "target", "orbit_distance", "orbit_angle_x", "orbit_angle_y" }

\* the step is a call of Camera::HandleMouseMove
MouseMoveStep == EventStep /\ last'.op = "HandleMouseMove"

\* C22: HandleMouseMove(x, y) stores delta = (x - lastX, lastY - y) and (x, y)
\* as the pointer position, and then does exactly one of: MoveAlongAxes(delta)
\* if the Ctrl flag and the rotation flag are set; otherwise Orbit(delta) if
\* the rotation flag is set; otherwise Pan(delta) if the panning flag is set;
\* otherwise nothing, so that position, target and the orbit triple stay.
C22_MouseMoveDispatch ==
    [][ MouseMoveStep
        => LET delta == Vector2(last'.x - cam.last_mouse_pos[1],
                                cam.last_mouse_pos[2] - last'.y)
               moved == [cam EXCEPT !.mouse_delta = delta,
                                    !.last_mouse_pos = Vector2(last'.x, last'.y)]
           IN  /\ cam'.mouse_delta = delta
               /\ cam'.last_mouse_pos = Vector2(last'.x, last'.y)
               /\ (cam.is_ctrl_pressed /\ cam.is_rotating)
                     => cam' = MoveAlongAxes(moved, delta[1], delta[2])
               /\ (~cam.is_ctrl_pressed /\ cam.is_rotating)
                     => cam' = Orbit(moved, delta[1], delta[2])
               /\ (~cam.is_rotating /\ cam.is_panning)
                     => cam' = Pan(moved, delta[1], delta[2])
               /\ (~cam.is_rotating /\ ~cam.is_panning)
                     => \A f \in PoseFields : cam'[f] = cam[f]
               /\ \A f \in (DOMAIN cam) \ (PoseFields \cup {"mouse_delta", "last_mouse_pos"}) :
                     cam'[f] = cam[f] ]_vars

\* C22 witness: with the left and the middle button held the pointer moved:
\* the camera turned about its target, which stayed where it was
C22_Witness ==
    /\ last.op = "HandleMouseMove" /\ steps = 3
    /\ cam.is_rotating /\ cam.is_panning /\ ~cam.is_ctrl_pressed
    /\ cam.mouse_delta # Vector2(0, 0)
    /\ cam.target = CameraNew.target
    /\ cam.orbit_angle_x # CameraNew.orbit_angle_x
    /\ cam.position # CameraNew.position

\* the step is a call of Camera::HandleKey with the projection or the reset key
ProjectionOrResetKeyStep ==
    /\ EventStep
    /\ last'.op = "HandleKey" /\ last'.code \in {"P", "R"}

\* the other projection mode
Toggled(proj) == IF proj = "Perspective" THEN "Orthographic" ELSE "Perspective"

\* C23: a press of P changes the projection mode to the other one and no
\* other field of the camera; a press of R has exactly the effect of Reset();
\* a release or a repeat of P or of R changes nothing.
C23_ProjectionAndResetKeys ==
    [][ ProjectionOrResetKeyStep
        => cam' = IF last'.action # "PRESS" THEN cam
                  ELSE IF last'.code = "P"
                  THEN [cam EXCEPT !.projection = Toggled(cam.projection)]
                  ELSE Reset(cam) ]_vars

\* C23 witness: a press of P has taken a camera with a changed field of view
\* from the orthographic projection back to the perspective one, and the
\* field of view is still the changed one
C23_Witness ==
    /\ last.op = "HandleKey" /\ last.code = "P" /\ last.action = "PRESS"
    /\ steps = 3
    /\ cam = [CameraNew EXCEPT !.fov = 60 * SCALE]

\* the step is a call of Camera::Update
UpdateStep == EventStep /\ last'.op = "Update"

\* C24: Update(width, height) changes no field of the camera but the aspect
\* ratio, and after it the aspect ratio is strictly positive: width / height
\* when both are positive, the value it had otherwise.
C24_UpdateKeepsAspectPositive ==
    [][ UpdateStep
        => /\ \A f \in (DOMAIN cam) \ {"aspect_ratio"} : cam'[f] = cam[f]
           /\ cam'.aspect_ratio > 0
           /\ cam'.aspect_ratio =
                 IF last'.x > 0 /\ last'.y > 0
                 THEN FDiv(last'.x * SCALE, last'.y * SCALE)
                 ELSE cam.aspect_ratio ]_vars

\* the step is a call Orbit(dx, 0)
HorizontalOrbitStep == EventStep /\ last'.op = "Orbit" /\ last'.y = 0

\* C25: from every reachable state Orbit(dx, 0) followed by Orbit(-dx, 0)
\* returns angleX and the position to the values they had, and target,
\* distance and angleY are the same before, between and after the two calls.
C25_OrbitRoundTrip ==
    [][ HorizontalOrbitStep
        => LET back == Orbit(cam', 0 - last'.x, 0)
           IN  /\ back.orbit_angle_x = cam.orbit_angle_x
               /\ \A i \in 1..3 : Near(back.position[i], cam.position[i], cam.orbit_distance)
               /\ \A f \in {"target", "orbit_distance", "orbit_angle_y"} :
                     cam'[f] = cam[f] /\ back[f] = cam[f] ]_vars

-----------------------------------------------------------------------------
(* Properties of the drags across the callbacks.                            *)

\* C26: when the last platform event is a release of the left button,
\* whatever the capture and over-viewport flags of the events were, no drag
\* is latched: the camera is not rotating and the drawing tool not Drawing.
C26_ReleaseEndsDrag ==
    (last.op = "button" /\ last.code = "LEFT" /\ last.action = "RELEASE")
        => ~cam.is_rotating /\ ~ui.is_drawing

\* C27: after any sequence of key events is_ctrl_pressed is true exactly
\* when a Control key is held down.
C27_CtrlFlagAccurate ==
    cam.is_ctrl_pressed <=> (\E k \in held : IsControlKey(k))

\* C28: the committed list is always whole segments: the number of points
\* of line_points is even.
C28_CommittedWholeSegments ==
    Len(ui.line_points) % 2 = 0

\* C28 witness: after a Clear All a segment was drawn with the Line tool:
\* the list is that one segment, not the test segment of the constructor
C28_Witness ==
    /\ LeftToDrawing(last, "RELEASE") /\ ui.current_tool = "Line"
    /\ Len(ui.line_points) = 2
    /\ ui.line_points # UserInterfaceNew.line_points
    /\ ui.line_points = << ui.line_start, ui.line_end >>

\* the frame in which one of the four tool buttons is clicked
ToolClickStep ==
    \E h \in BOOLEAN, c \in {"Select", "Line", "Rectangle", "Circle"} :
        DrawFrame(h, c, NoCommand)

\* C29: after every step, Drawing implies that a tool is selected; a click
\* on a tool button leaves the tool Idle; and a release that reaches the
\* drawing tool while it is Idle commits nothing.
C29_DrawingImpliesTool ==
    [][ /\ ui'.is_drawing => ui'.current_tool # "None"
        /\ ToolClickStep => ~ui'.is_drawing
        /\ (EventStep /\ LeftToDrawing(last', "RELEASE") /\ ~ui.is_drawing)
              => ui'.line_points = ui.line_points ]_vars

\* C29 witness: a press began a drag, a tool button was clicked, and the
\* release, with the Line tool selected, committed nothing
C29_Witness ==
    /\ steps = 2 /\ LeftToDrawing(last, "RELEASE")
    /\ press_at.pos # Vector2(0, 0)
    /\ ui.current_tool = "Line" /\ ~ui.is_drawing
    /\ ui.line_points = UserInterfaceNew.line_points

-----------------------------------------------------------------------------
(* Properties of the renderer.                                              *)

\* the step is a call of InitViewport or RenderViewport
ViewportStep ==
    /\ EventStep
    /\ last'.op \in {"InitViewport", "RenderViewport"}

\* the viewport of renderer r is one set of live GL objects, the one its
\* fields name
OneViewportSet(r) ==
    /\ r.viewport_framebuffer # 0 /\ r.framebuffers = {r.viewport_framebuffer}
    /\ r.viewport_texture # 0 /\ r.textures = {r.viewport_texture}
    /\ r.viewport_renderbuffer # 0 /\ r.renderbuffers = {r.viewport_renderbuffer}

\* C30: after every call of InitViewport or RenderViewport the viewport is
\* initialised at the size requested and exactly one framebuffer, texture and
\* renderbuffer set is alive; RenderViewport runs __init_viewport once when
\* the size changed or the viewport was not initialised and not at all
\* otherwise, InitViewport once; and a shader program that exists is neither
\* replaced nor joined by a second one.
C30_ViewportLifecycle ==
    [][ ViewportStep
        => /\ rnd'.viewport_initialized
           /\ rnd'.viewport_width = last'.x /\ rnd'.viewport_height = last'.y
           /\ OneViewportSet(rnd')
           /\ rnd'.viewport_inits = rnd.viewport_inits +
                 ( IF \/ last'.op = "InitViewport"
                      \/ ~rnd.viewport_initialized
                      \/ rnd.viewport_width # last'.x
                      \/ rnd.viewport_height # last'.y
                   THEN 1 ELSE 0 )
           /\ rnd.shader_program # 0
                 => rnd'.shader_program = rnd.shader_program
           /\ rnd'.programs = IF rnd'.shader_program = 0 THEN {}
                              ELSE {rnd'.shader_program} ]_vars

\* C30 witness: the viewport was rendered twice at one size and then at
\* another: it was initialised twice, the first set of objects is gone, and
\* the shader program is the one of the first call
C30_Witness ==
    /\ last.op = "RenderViewport" /\ steps = 3
    /\ rnd.viewport_inits = 2
    /\ rnd.viewport_width = 640 /\ rnd.viewport_height = 480
    /\ rnd.viewport_initialized
    /\ rnd.framebuffers = {5} /\ rnd.viewport_framebuffer = 5
    /\ rnd.shader_program = 1 /\ rnd.programs = {1}

====
